---- MODULE Spec2Model ----
(***************************************************************************)
(* A model of package cmdr (cmd.go): the template renderer                 *)
(* (Command.Render, optional), the session counter (nextID) and the        *)
(* process runner (Command.Runner, Run, RunAsync).                         *)
(*                                                                         *)
(* A Go string is a sequence of one-character strings; positions in the    *)
(* Go code are 0-based and are kept 0-based in Index and Slice.            *)
(***************************************************************************)
EXTENDS Integers, Sequences, FiniteSets, TLC

VARIABLES
    \* ---- renderer (one call of Command.Render) ----
    pieces,      \* the pieces c.Params of the call is made of
    tmpl,        \* c.Params of the call
    args,        \* params of the call
    text,        \* the local variable text
    rargs,       \* the params the range loop of Render has not yet visited
    gl,          \* the glob matches the range loop of optional has not yet visited
    rpc,         \* position in Render/optional
    rerr,        \* the error returned
    envReads,    \* number of os.ExpandEnv calls made
    globCalls,   \* number of filepath.Glob calls made
    \* ---- session counter ----
    sessionID,   \* the package variable sessionID
    mtx,         \* the package variable mtx: the thread holding it, or 0
    idpc,        \* each thread's position in nextID
    idret,       \* the value each thread's last nextID call returned
    calls,       \* the number of nextID calls each thread has made
    issued,      \* every value nextID has returned, in the order of the returns
    floor,       \* the greatest value nextID had returned to anyone when each thread's call began
    \* ---- runner (one invocation per slot) ----
    pc,          \* the calling thread's position in Run/RunAsync/Runner
    entry,       \* the function called: "Run", "RunAsync", or "Run0" (the older Run)
    async,       \* c.Async as Runner sees it
    r,           \* the local variable r (a Runtime)
    err,         \* the local variable err of Runner (of the older Run)
    dclose,      \* the pipe ends whose Close is deferred to the function's return
    ret,         \* what the call returned to its caller
    failed,      \* the first failure of the invocation: the step and its error
    rt,          \* the channel rt: the values buffered in it
    sent,        \* every value sent on rt, in the order of the sends
    fpc,         \* position in finisher (on the calling thread, or on its own goroutine)
    fs,          \* finisher's s: the *os.ProcessState Wait returned, or NilState
    ferr,        \* finisher's err
    child,       \* the child process: "none", "running" or "exited"
    cstat,       \* the child's exit status
    cout,        \* what the child's program writes to its standard output
    cerr,        \* what the child's program writes to its standard error
    wrote,       \* how many characters of each the child has written into its pipe
    drained,     \* how many characters of each the parent has read from its pipe
    fds          \* the parent's pipe ends: "none", "open" or "closed"

rvars == <<pieces, tmpl, args, text, rargs, gl, rpc, rerr, envReads, globCalls>>
idvars == <<sessionID, mtx, idpc, idret, calls, issued, floor>>
runvars == <<pc, entry, async, r, err, dclose, ret, failed>>
chanvars == <<rt, sent>>
finvars == <<fpc, fs, ferr, drained>>
childvars == <<child, cstat, cout, cerr, wrote>>

vars == <<rvars, idvars, runvars, chanvars, finvars, childvars, fds>>

----------------------------------------------------------------------------
(* Errors (cmd.go:49-55) and the nil error.                                *)

Nil == "nil"
ErrIncomplete == "missing required parameter"
ErrSyntaxError == "invalid command syntax"
ErrNoSuchFile == "no such file or directory"
ErrMustBeRoot == "must be run as root"

----------------------------------------------------------------------------
(* Character classes of the two regular expressions.                       *)

Upper == {"A","B","C","D","E","F","G","H","I","J","K","L","M",
          "N","O","P","Q","R","S","T","U","V","W","X","Y","Z"}
Lower == {"a","b","c","d","e","f","g","h","i","j","k","l","m",
          "n","o","p","q","r","s","t","u","v","w","x","y","z"}
Digit == {"0","1","2","3","4","5","6","7","8","9"}
\* \w of Go's regexp
WordChar == Upper \cup Lower \cup Digit \cup {"_"}
\* [\w.-] of the globs expression
GlobChar == WordChar \cup {".", "-"}

SetMin(S) == CHOOSE m \in S : \A n \in S : m <= n

----------------------------------------------------------------------------
(* Package strings.                                                        *)

\* s[i:] starts with pat (i is 1-based)
HasPrefixAt(s, i, pat) ==
    /\ i + Len(pat) - 1 <= Len(s)
    /\ \A k \in 1..Len(pat) : s[i + k - 1] = pat[k]

\* strings.Index: 0-based position of the first occurrence, or -1
Index(s, pat) ==
    LET hits == {i \in 1..Len(s) : HasPrefixAt(s, i, pat)}
    IN  IF pat = <<>> THEN 0
        ELSE IF hits = {} THEN -1 ELSE SetMin(hits) - 1

\* the Go slice expression s[a:b]
Slice(s, a, b) == SubSeq(s, a + 1, b)

\* strings.Replace(s, old, new, -1) for a non-empty old: every
\* non-overlapping occurrence, left to right
RECURSIVE Replace(_, _, _)
Replace(s, old, new) ==
    LET j == Index(s, old)
    IN  IF old = <<>> \/ j < 0 THEN s
        ELSE Slice(s, 0, j) \o new
             \o Replace(Slice(s, j + Len(old), Len(s)), old, new)

\* strings.Join(files, " ")
RECURSIVE Join(_)
Join(files) ==
    IF files = <<>> THEN <<>>
    ELSE IF Len(files) = 1 THEN files[1]
    ELSE files[1] \o <<" ">> \o Join(Tail(files))

----------------------------------------------------------------------------
(* The two regular expressions.                                            *)

\* pmatch = "{{[A-Z]+}}" matches at position i (1-based)
PMatchAt(s, i) ==
    \E n \in 1..Len(s) :
        /\ i + n + 3 <= Len(s)
        /\ s[i] = "{" /\ s[i + 1] = "{"
        /\ \A k \in 2..(n + 1) : s[i + k] \in Upper
        /\ s[i + n + 2] = "}" /\ s[i + n + 3] = "}"

\* pmatch.MatchString
PMatch(s) == \E i \in 1..Len(s) : PMatchAt(s, i)

\* the end (exclusive, 1-based) of the run of [\w.-] that starts at i
RunEnd(s, i) ==
    SetMin({k \in i..(Len(s) + 1) : k = Len(s) + 1 \/ s[k] \notin GlobChar})

\* globs = "[\w.-]*\*[\w.-]*" matches at i: the run starting at i is
\* followed by a star (the run holds no star, so no shorter run helps)
GlobAt(s, i) == RunEnd(s, i) <= Len(s) /\ s[RunEnd(s, i)] = "*"

\* globs.FindAllString(s, -1), scanning from position pos: leftmost match,
\* greedy on both sides of its star, the next search starting at its end
RECURSIVE FindAllFrom(_, _)
FindAllFrom(s, pos) ==
    LET starts == {i \in pos..Len(s) : GlobAt(s, i)}
    IN  IF starts = {} THEN <<>>
        ELSE LET i == SetMin(starts)
                 e == RunEnd(s, i)
                 f == RunEnd(s, e + 1)
             IN  <<SubSeq(s, i, f - 1)>> \o FindAllFrom(s, f)

FindAllString(s) == FindAllFrom(s, 1)

----------------------------------------------------------------------------
(* The environment and the file system Render reads.                       *)

\* os.Getenv: one variable is set, $L; every other name is unset
Getenv(name) == IF name = <<"L">> THEN <<"v">> ELSE <<>>

\* the names in the working directory, as os.ReadDir sorts them
Files == << <<"a">>, <<"a", "b">>, <<"b">> >>

\* filepath.Match for a pattern whose only metacharacter is the star
RECURSIVE MatchFrom(_, _, _, _)
MatchFrom(p, i, s, j) ==
    IF i > Len(p) THEN j > Len(s)
    ELSE IF p[i] = "*"
         THEN \E k \in j..(Len(s) + 1) : MatchFrom(p, i + 1, s, k)
         ELSE j <= Len(s) /\ s[j] = p[i] /\ MatchFrom(p, i + 1, s, j + 1)

\* filepath.Glob(g) in the working directory: the sorted matching names.
\* A match of globs holds no '[' and no '\', so Glob never returns
\* ErrBadPattern for it.
Glob(g) == SelectSeq(Files, LAMBDA f : MatchFrom(g, 1, f, 1))

\* os.isShellSpecialVar and os.isAlphaNum
SpecialVar == {"*", "#", "$", "@", "!", "?", "-"} \cup Digit
AlphaNum == WordChar

\* os.getShellName on s[j:] (j is 1-based): the name and the bytes consumed
GetShellName(s, j) ==
    IF s[j] = "{"
    THEN IF Len(s) - j + 1 > 2 /\ s[j + 1] \in SpecialVar /\ s[j + 2] = "}"
         THEN [name |-> <<s[j + 1]>>, w |-> 3]
         ELSE LET closes == {k \in (j + 1)..Len(s) : s[k] = "}"}
              IN  IF closes = {} THEN [name |-> <<>>, w |-> 1]
                  ELSE LET k == SetMin(closes)
                       IN  IF k = j + 1 THEN [name |-> <<>>, w |-> 2]
                           ELSE [name |-> SubSeq(s, j + 1, k - 1),
                                 w |-> k - j + 1]
    ELSE IF s[j] \in SpecialVar THEN [name |-> <<s[j]>>, w |-> 1]
    ELSE LET e == SetMin({k \in j..(Len(s) + 1) :
                            k = Len(s) + 1 \/ s[k] \notin AlphaNum})
         IN  [name |-> SubSeq(s, j, e - 1), w |-> e - j]

\* os.Expand(s, os.Getenv) from position j (1-based)
RECURSIVE ExpandFrom(_, _)
ExpandFrom(s, j) ==
    IF j > Len(s) THEN <<>>
    ELSE IF s[j] = "$" /\ j + 1 <= Len(s)
    THEN LET nm == GetShellName(s, j + 1)
         IN  (IF nm.name = <<>> /\ nm.w > 0 THEN <<>>
              ELSE IF nm.name = <<>> THEN <<"$">>
              ELSE Getenv(nm.name))
             \o ExpandFrom(s, j + 1 + nm.w)
    ELSE <<s[j]>> \o ExpandFrom(s, j + 1)

\* os.ExpandEnv
ExpandEnv(s) == ExpandFrom(s, 1)

----------------------------------------------------------------------------
(* Command.Render and optional, statement by statement.                    *)

\* the body of Render's range loop for one Param p = <<name, value>>
SubstParam(t, p) ==
    IF Len(p[1]) > 0
    THEN Replace(t, <<"{", "{">> \o p[1] \o <<"}", "}">>, p[2])
    ELSE t \o <<" ">> \o p[2]

\* the test of optional's bracket loop: end < 0 || end < start
BracketSyntaxError(t) ==
    LET start == Index(t, <<"[">>)
        end == Index(t, <<"]">>)
    IN  end < 0 \/ end < start

\* one pass of optional's bracket loop on a text that holds a '[' and
\* passed the syntax test: the fragment is dropped while pmatch matches the
\* whole text, and unwrapped otherwise
\* a variant that never drops a fragment: the brackets are always stripped
BracketStep_keep(t) ==
    LET start == Index(t, <<"[">>)
        end == Index(t, <<"]">>)
    IN  Slice(t, 0, start) \o Slice(t, start + 1, end)
        \o Slice(t, end + 1, Len(t))

\* a variant that looks for a placeholder inside the fragment only
BracketStep_own(t) ==
    LET start == Index(t, <<"[">>)
        end == Index(t, <<"]">>)
    IN  IF PMatch(Slice(t, start + 1, end))
        THEN Slice(t, 0, start) \o Slice(t, end + 1, Len(t))
        ELSE Slice(t, 0, start) \o Slice(t, start + 1, end)
             \o Slice(t, end + 1, Len(t))

BracketStep(t) ==
    LET start == Index(t, <<"[">>)
        end == Index(t, <<"]">>)
    IN  IF PMatch(t)
        THEN Slice(t, 0, start) \o Slice(t, end + 1, Len(t))
        ELSE Slice(t, 0, start) \o Slice(t, start + 1, end)
             \o Slice(t, end + 1, Len(t))

\* the bracket loop of optional
RECURSIVE BracketLoop(_)
BracketLoop(t) ==
    IF Index(t, <<"[">>) < 0 THEN [text |-> t, err |-> Nil]
    ELSE IF BracketSyntaxError(t) THEN [text |-> t, err |-> ErrSyntaxError]
    ELSE BracketLoop(BracketStep(t))

\* the body of optional's glob loop for the match g
GlobStep(t, g) ==
    LET files == Glob(g)
    IN  IF Len(files) = 0 THEN [text |-> t, err |-> ErrNoSuchFile]
        ELSE [text |-> Replace(t, g, Join(files)), err |-> Nil]

\* the glob loop of optional over the matches gs found in the text
RECURSIVE GlobLoop(_, _)
GlobLoop(t, gs) ==
    IF gs = <<>> THEN [text |-> t, err |-> Nil]
    ELSE LET res == GlobStep(t, Head(gs))
         IN  IF res.err # Nil THEN res ELSE GlobLoop(res.text, Tail(gs))

\* optional(text)
optional(t) ==
    LET b == BracketLoop(t)
    IN  IF b.err # Nil THEN b
        ELSE IF PMatch(b.text) THEN [text |-> b.text, err |-> ErrIncomplete]
        ELSE LET e == ExpandEnv(b.text)
             IN  GlobLoop(e, FindAllString(e))

\* Render's range loop over params
RECURSIVE SubstAll(_, _)
SubstAll(t, ps) ==
    IF ps = <<>> THEN t ELSE SubstAll(SubstParam(t, Head(ps)), Tail(ps))

\* c.Render(params...)
Render(t, ps) == optional(SubstAll(t, ps))

\* two placeholders, an optional fragment around each (the first with some
\* text of its own), and plain text
PhA == <<"{", "{", "A", "}", "}">>
PhB == <<"{", "{", "B", "}", "}">>
FragA == <<"[", "x">> \o PhA \o <<"]">>
FragB == <<"[">> \o PhB \o <<"]">>
PlainText == <<"x">>

----------------------------------------------------------------------------
(* The session counter: nextID (cmd.go:57-62).                             *)

\* the goroutines that may call nextID, MaxCalls times between them
NumThreads == 2
MaxCalls == 3
Threads == 1..NumThreads

\* the runner is followed through one invocation, on thread 1: an
\* invocation owns its Runtime, pipes, child and channel, and shares only
\* the session counter, whose concurrent use is explored by SpecID
Invs == {1}

\* a nil *os.ProcessState was dereferenced (cmd.go:167): the panic ends
\* the process and every goroutine in it
Crashed == \E i \in Invs : fpc[i] = "panic"

\* the greatest value of a sequence of naturals, 0 for the empty one
Greatest(q) ==
    IF q = <<>> THEN 0
    ELSE CHOOSE m \in {q[k] : k \in 1..Len(q)} : \A k \in 1..Len(q) : q[k] <= m

InitID ==
    /\ sessionID = 0
    /\ mtx = 0
    /\ idpc = [t \in Threads |-> "idle"]
    /\ idret = [t \in Threads |-> 0]
    /\ calls = [t \in Threads |-> 0]
    /\ issued = <<>>
    /\ floor = [t \in Threads |-> 0]

\* cmd.go:58, mtx.Lock()
NextIDLock(t) ==
    /\ ~Crashed
    /\ idpc[t] = "lock" /\ mtx = 0
    /\ mtx' = t
    /\ idpc' = [idpc EXCEPT ![t] = "inc"]
    /\ UNCHANGED <<sessionID, idret, calls, issued, floor>>
    /\ UNCHANGED <<rvars, runvars, chanvars, finvars, childvars, fds>>

\* a variant that adds two to the counter
NextIDInc_twice(t) ==
    /\ ~Crashed
    /\ idpc[t] = "inc"
    /\ sessionID' = sessionID + 2
    /\ idpc' = [idpc EXCEPT ![t] = "unlock"]
    /\ UNCHANGED <<mtx, idret, calls, issued, floor>>
    /\ UNCHANGED <<rvars, runvars, chanvars, finvars, childvars, fds>>

\* cmd.go:59, sessionID++
NextIDInc(t) ==
    /\ ~Crashed
    /\ idpc[t] = "inc"
    /\ sessionID' = sessionID + 1
    /\ idpc' = [idpc EXCEPT ![t] = "unlock"]
    /\ UNCHANGED <<mtx, idret, calls, issued, floor>>
    /\ UNCHANGED <<rvars, runvars, chanvars, finvars, childvars, fds>>

\* cmd.go:60, mtx.Unlock()
NextIDUnlock(t) ==
    /\ ~Crashed
    /\ idpc[t] = "unlock"
    /\ mtx' = 0
    /\ idpc' = [idpc EXCEPT ![t] = "read"]
    /\ UNCHANGED <<sessionID, idret, calls, issued, floor>>
    /\ UNCHANGED <<rvars, runvars, chanvars, finvars, childvars, fds>>

\* a variant that returns the counter's value from before the increment
NextIDReturn_stale(t) ==
    /\ ~Crashed
    /\ idpc[t] = "read"
    /\ idret' = [idret EXCEPT ![t] = sessionID - 1]
    /\ issued' = Append(issued, sessionID - 1)
    /\ idpc' = [idpc EXCEPT ![t] = "returned"]
    /\ UNCHANGED <<sessionID, mtx, calls, floor>>
    /\ UNCHANGED <<rvars, runvars, chanvars, finvars, childvars, fds>>

\* cmd.go:61, return sessionID: the variable is read after the unlock,
\* so the value is the counter's at the time of this read
NextIDReturn(t) ==
    /\ ~Crashed
    /\ idpc[t] = "read"
    /\ idret' = [idret EXCEPT ![t] = sessionID]
    /\ issued' = Append(issued, sessionID)
    /\ idpc' = [idpc EXCEPT ![t] = "returned"]
    /\ UNCHANGED <<sessionID, mtx, calls, floor>>
    /\ UNCHANGED <<rvars, runvars, chanvars, finvars, childvars, fds>>

\* the number of nextID calls the threads 1..n have made
RECURSIVE CallsMade(_)
CallsMade(n) == IF n = 0 THEN 0 ELSE calls[n] + CallsMade(n - 1)

\* a goroutine calls nextID
CallerCall(t) ==
    /\ idpc[t] = "idle" /\ CallsMade(NumThreads) < MaxCalls
    /\ idpc' = [idpc EXCEPT ![t] = "lock"]
    /\ calls' = [calls EXCEPT ![t] = calls[t] + 1]
    /\ floor' = [floor EXCEPT ![t] = Greatest(issued)]
    /\ UNCHANGED <<sessionID, mtx, idret, issued>>
    /\ UNCHANGED <<rvars, runvars, chanvars, finvars, childvars, fds>>

\* and takes the value returned
CallerReturn(t) ==
    /\ idpc[t] = "returned"
    /\ idpc' = [idpc EXCEPT ![t] = "idle"]
    /\ UNCHANGED <<sessionID, mtx, idret, calls, issued, floor>>
    /\ UNCHANGED <<rvars, runvars, chanvars, finvars, childvars, fds>>

----------------------------------------------------------------------------
(* The process runner: Command.Runner, Run, RunAsync (cmd.go:93-194) and   *)
(* the older Command.Run (unnamed/part_000:88-166).                        *)

MaxExit == 1
\* the number of characters a pipe holds before a write to it blocks
PipeCap == 1
\* cmd.go:186, make(chan Runtime, 1); a caller of RunAsync is taken to
\* pass a channel of the same capacity
RtCap == 1

ExitCodes == 0..MaxExit
\* the outputs of the programs run: on stdout nothing, less than a pipe
\* holds, and more than it holds
StdoutTexts == {[k \in 1..n |-> "o"] : n \in {0, PipeCap, PipeCap + 1}}
StderrTexts == {<<>>, <<"e">>}

\* the errors of the steps that are not package variables
ErrLookPath == "exec: no such file or directory"
ErrPipe == "pipe: too many open files"
ErrLookup == "user: unknown user"
ErrParseUint == "strconv.ParseUint: invalid syntax"
ErrSpawn == "fork/exec: permission denied"
ErrWait == "wait: no child processes"
ErrRead == "read: input/output error"

\* Runtime{} (cmd.go:64-70, 94); a time is 0 (the zero time) or 1 (set)
ZeroRuntime ==
    [SID |-> 0, PID |-> 0, RC |-> 0, Cmd |-> <<>>, Stdout |-> <<>>,
     Stderr |-> <<>>, SystemTime |-> 0, UserTime |-> 0,
     Started |-> 0, Finished |-> 0]

NilState == [nil |-> TRUE]
NoReturn == [returned |-> FALSE]
NoFailure == [kind |-> "none", err |-> Nil]
NoneMoved == [out |-> 0, err |-> 0]
NoFds == [errOut |-> "none", errIn |-> "none", outOut |-> "none", outIn |-> "none"]

\* the pid of invocation i's child
Pid(i) == 100 + i

\* the path LookPath resolved
Path == <<"/", "p">>

\* the template and parameters of the calls explored: no arguments, a
\* supplied placeholder, a missing one, a glob without a match
RunnerCalls ==
    { <<(<<>>), (<<>>)>>,
      <<PhA, << <<(<<"A">>), (<<"v">>)>> >> >>,
      <<PhA, (<<>>)>>,
      <<(<<"a", "a", "*">>), (<<>>)>> }

InitRunner ==
    /\ pc = [i \in Invs |-> "idle"]
    /\ entry = [i \in Invs |-> "none"]
    /\ async = [i \in Invs |-> FALSE]
    /\ r = [i \in Invs |-> ZeroRuntime]
    /\ err = [i \in Invs |-> Nil]
    /\ dclose = [i \in Invs |-> {}]
    /\ ret = [i \in Invs |-> NoReturn]
    /\ failed = [i \in Invs |-> NoFailure]
    /\ rt = [i \in Invs |-> <<>>]
    /\ sent = [i \in Invs |-> <<>>]
    /\ fpc = [i \in Invs |-> "none"]
    /\ fs = [i \in Invs |-> NilState]
    /\ ferr = [i \in Invs |-> Nil]
    /\ child = [i \in Invs |-> "none"]
    /\ cstat = [i \in Invs |-> 0]
    /\ cout = [i \in Invs |-> <<>>]
    /\ cerr = [i \in Invs |-> <<>>]
    /\ wrote = [i \in Invs |-> NoneMoved]
    /\ drained = [i \in Invs |-> NoneMoved]
    /\ fds = [i \in Invs |-> NoFds]

\* the record of a failure: the first one of the invocation is kept
Failure(before, kind, e) ==
    IF before = NoFailure THEN [kind |-> kind, err |-> e] ELSE before

\* `return err` of Runner, `return r, err` of the older Run: the error is
\* set and the deferred calls are next
Fail(i, kind, e) ==
    /\ err' = [err EXCEPT ![i] = e]
    /\ failed' = [failed EXCEPT ![i] = Failure(failed[i], kind, e)]
    /\ pc' = [pc EXCEPT ![i] = "defer"]

\* cmd.go:185-187 (Run), 191-193 (RunAsync), part_000:88-89: the call.
\* Run keeps the Command's Async flag, RunAsync sets it, the older Run has none.
Call(i) ==
    /\ ~Crashed
    /\ pc[i] = "idle"
    /\ \E e \in {"Run", "RunAsync", "Run0"}, a \in BOOLEAN :
        /\ e = "RunAsync" => a
        /\ e = "Run0" => ~a
        /\ entry' = [entry EXCEPT ![i] = e]
        /\ async' = [async EXCEPT ![i] = a]
    /\ pc' = [pc EXCEPT ![i] = "LookPath"]
    /\ UNCHANGED <<r, err, dclose, ret, failed>>
    /\ UNCHANGED <<rvars, idvars, chanvars, finvars, childvars, fds>>

\* a variant that records the lookup failure and goes on to the next step
LookPath_noReturn(i) ==
    /\ ~Crashed
    /\ pc[i] = "LookPath"
    /\ \E found \in BOOLEAN :
        IF found
        THEN pc' = [pc EXCEPT ![i] = "Render"] /\ UNCHANGED <<err, failed>>
        ELSE /\ err' = [err EXCEPT ![i] = ErrLookPath]
             /\ failed' = [failed EXCEPT
                    ![i] = Failure(failed[i], "lookpath", ErrLookPath)]
             /\ pc' = [pc EXCEPT ![i] = "Render"]
    /\ UNCHANGED <<entry, async, r, dclose, ret>>
    /\ UNCHANGED <<rvars, idvars, chanvars, finvars, childvars, fds>>

\* cmd.go:98-101
LookPath(i) ==
    /\ ~Crashed
    /\ pc[i] = "LookPath"
    /\ \E found \in BOOLEAN :
        IF found
        THEN pc' = [pc EXCEPT ![i] = "Render"] /\ UNCHANGED <<err, failed>>
        ELSE Fail(i, "lookpath", ErrLookPath)
    /\ UNCHANGED <<entry, async, r, dclose, ret>>
    /\ UNCHANGED <<rvars, idvars, chanvars, finvars, childvars, fds>>

\* cmd.go:102-109
RenderArgs(i) ==
    /\ ~Crashed
    /\ pc[i] = "Render"
    /\ \E c \in RunnerCalls :
        LET res == Render(c[1], c[2])
        IN  IF res.err # Nil
            THEN Fail(i, "render", res.err) /\ r' = r
            ELSE /\ r' = [r EXCEPT ![i].Cmd =
                        IF Len(res.text) > 0 THEN Path \o <<" ">> \o res.text ELSE Path]
                 /\ pc' = [pc EXCEPT ![i] = "PipeErr"]
                 /\ UNCHANGED <<err, failed>>
    /\ UNCHANGED <<entry, async, dclose, ret>>
    /\ UNCHANGED <<rvars, idvars, chanvars, finvars, childvars, fds>>

\* cmd.go:111-114; part_000:103-107, where errOut.Close is deferred here
PipeErr(i) ==
    /\ ~Crashed
    /\ pc[i] = "PipeErr"
    /\ \E ok \in BOOLEAN :
        IF ok
        THEN /\ fds' = [fds EXCEPT ![i].errOut = "open", ![i].errIn = "open"]
             /\ dclose' = [dclose EXCEPT ![i] =
                    IF entry[i] = "Run0" THEN {"errOut"} ELSE {}]
             /\ pc' = [pc EXCEPT ![i] = "PipeOut"]
             /\ UNCHANGED <<err, failed>>
        ELSE Fail(i, "pipe", ErrPipe) /\ UNCHANGED <<fds, dclose>>
    /\ UNCHANGED <<entry, async, r, ret>>
    /\ UNCHANGED <<rvars, idvars, chanvars, finvars, childvars>>

\* cmd.go:116-123: the Closes of the read ends are deferred only when
\* !c.Async; part_000:109-113
PipeOut(i) ==
    /\ ~Crashed
    /\ pc[i] = "PipeOut"
    /\ \E ok \in BOOLEAN :
        IF ok
        THEN /\ fds' = [fds EXCEPT ![i].outOut = "open", ![i].outIn = "open"]
             /\ dclose' = [dclose EXCEPT ![i] =
                    IF async[i] THEN {} ELSE {"errOut", "outOut"}]
             /\ pc' = [pc EXCEPT ![i] = "User"]
             /\ UNCHANGED <<err, failed>>
        ELSE Fail(i, "pipe", ErrPipe) /\ UNCHANGED <<fds, dclose>>
    /\ UNCHANGED <<entry, async, r, ret>>
    /\ UNCHANGED <<rvars, idvars, chanvars, finvars, childvars>>

\* how c.User fares: unset; set while not root; unknown to user.Lookup;
\* a uid ParseUint rejects; resolved
UserCases == {"unset", "notroot", "unknown", "baduid", "resolved"}

\* cmd.go:125-144 (part_000:115-134); the older Run spawns next, and
\* draws the session identifier after the spawn
UserStep(i) ==
    /\ ~Crashed
    /\ pc[i] = "User"
    /\ \E u \in UserCases :
        CASE u = "notroot" -> Fail(i, "root", ErrMustBeRoot)
          [] u = "unknown" -> Fail(i, "lookup", ErrLookup)
          [] u = "baduid" -> Fail(i, "lookup", ErrParseUint)
          [] OTHER -> /\ pc' = [pc EXCEPT ![i] =
                            IF entry[i] = "Run0" THEN "StartProcess" ELSE "nextID"]
                      /\ UNCHANGED <<err, failed>>
    /\ UNCHANGED <<entry, async, r, dclose, ret>>
    /\ UNCHANGED <<rvars, idvars, chanvars, finvars, childvars, fds>>

\* cmd.go:145 (part_000:144), the call of nextID
RunnerNextID(i) ==
    /\ ~Crashed
    /\ pc[i] = "nextID" /\ idpc[i] = "idle"
    /\ idpc' = [idpc EXCEPT ![i] = "lock"]
    /\ calls' = [calls EXCEPT ![i] = calls[i] + 1]
    /\ floor' = [floor EXCEPT ![i] = Greatest(issued)]
    /\ pc' = [pc EXCEPT ![i] = "inNextID"]
    /\ UNCHANGED <<sessionID, mtx, idret, issued>>
    /\ UNCHANGED <<entry, async, r, err, dclose, ret, failed>>
    /\ UNCHANGED <<rvars, chanvars, finvars, childvars, fds>>

\* cmd.go:145, r.SID = nextID(); part_000:144-146, where r.Started is set
\* and the wait follows
RunnerGotID(i) ==
    /\ ~Crashed
    /\ pc[i] = "inNextID" /\ idpc[i] = "returned"
    /\ idpc' = [idpc EXCEPT ![i] = "idle"]
    /\ IF entry[i] = "Run0"
       THEN /\ r' = [r EXCEPT ![i].SID = idret[i], ![i].Started = 1]
            /\ pc' = [pc EXCEPT ![i] = "finisher"]
            /\ fpc' = [fpc EXCEPT ![i] = "Wait"]
       ELSE /\ r' = [r EXCEPT ![i].SID = idret[i]]
            /\ pc' = [pc EXCEPT ![i] = "StartProcess"]
            /\ fpc' = fpc
    /\ UNCHANGED <<sessionID, mtx, idret, calls, issued, floor>>
    /\ UNCHANGED <<entry, async, err, dclose, ret, failed>>
    /\ UNCHANGED <<rvars, chanvars, fs, ferr, drained, childvars, fds>>

\* cmd.go:146-150 and 177-181: the spawn; then finisher is started on its
\* own goroutine (Async) and Runner returns a nil err, or is called in line.
\* part_000:140-143: the spawn, then nextID.
StartProcess(i) ==
    /\ ~Crashed
    /\ pc[i] = "StartProcess"
    /\ \E ok \in BOOLEAN :
        IF ok
        THEN /\ child' = [child EXCEPT ![i] = "running"]
             /\ \E o \in StdoutTexts : cout' = [cout EXCEPT ![i] = o]
             /\ \E e \in StderrTexts : cerr' = [cerr EXCEPT ![i] = e]
             /\ UNCHANGED <<err, failed>>
             /\ IF entry[i] = "Run0"
                THEN /\ pc' = [pc EXCEPT ![i] = "nextID"]
                     /\ UNCHANGED <<r, fpc>>
                ELSE /\ r' = [r EXCEPT ![i].Started = 1]
                     /\ fpc' = [fpc EXCEPT ![i] = "Wait"]
                     /\ pc' = [pc EXCEPT ![i] = IF async[i] THEN "defer" ELSE "finisher"]
        ELSE Fail(i, "spawn", ErrSpawn) /\ UNCHANGED <<r, fpc, child, cout, cerr>>
    /\ UNCHANGED <<entry, async, dclose, ret>>
    /\ UNCHANGED <<rvars, idvars, chanvars, fs, ferr, drained, cstat, wrote, fds>>

\* the number of characters in the stdout pipe and in the stderr pipe
Buffered(i) ==
    [out |-> wrote[i].out - drained[i].out, err |-> wrote[i].err - drained[i].err]

\* the child has output left to write, to stdout and to stderr
LeftToWrite(i) ==
    [out |-> Len(cout[i]) - wrote[i].out, err |-> Len(cerr[i]) - wrote[i].err]

\* the child writes a character to one of its pipes, which must have room
ChildWrite(i) ==
    /\ child[i] = "running"
    /\ \E f \in {"out", "err"} :
        /\ LeftToWrite(i)[f] > 0 /\ Buffered(i)[f] < PipeCap
        /\ wrote' = [wrote EXCEPT ![i][f] = wrote[i][f] + 1]
    /\ UNCHANGED <<child, cstat, cout, cerr>>
    /\ UNCHANGED <<rvars, idvars, runvars, chanvars, finvars, fds>>

\* the child has written its output and exits
ChildExit(i) ==
    /\ child[i] = "running"
    /\ LeftToWrite(i) = NoneMoved
    /\ child' = [child EXCEPT ![i] = "exited"]
    /\ \E s \in ExitCodes : cstat' = [cstat EXCEPT ![i] = s]
    /\ UNCHANGED <<cout, cerr, wrote>>
    /\ UNCHANGED <<rvars, idvars, runvars, chanvars, finvars, fds>>

\* cmd.go:153-154 (part_000:146-147): p.Wait() returns the state of the
\* exited child, or fails and returns a nil state; its error is kept in a
\* variable the reads below overwrite. Then r.Finished is set.
FWait(i) ==
    /\ ~Crashed
    /\ fpc[i] = "Wait"
    /\ \/ /\ child[i] = "exited"
          /\ fs' = [fs EXCEPT ![i] = [nil |-> FALSE, pid |-> Pid(i), status |-> cstat[i]]]
          /\ ferr' = [ferr EXCEPT ![i] = Nil]
          /\ failed' = failed
       \/ /\ fs' = [fs EXCEPT ![i] = NilState]
          /\ ferr' = [ferr EXCEPT ![i] = ErrWait]
          /\ failed' = [failed EXCEPT ![i] = Failure(failed[i], "wait", ErrWait)]
    /\ r' = [r EXCEPT ![i].Finished = 1]
    /\ fpc' = [fpc EXCEPT ![i] = "Close"]
    /\ UNCHANGED <<pc, entry, async, err, dclose, ret, drained>>
    /\ UNCHANGED <<rvars, idvars, chanvars, childvars, fds>>

\* a variant that closes the write end of the stdout pipe only
FClose_outOnly(i) ==
    /\ ~Crashed
    /\ fpc[i] = "Close"
    /\ fds' = [fds EXCEPT ![i].outIn = "closed"]
    /\ fpc' = [fpc EXCEPT ![i] = "ReadOut"]
    /\ UNCHANGED <<fs, ferr, drained>>
    /\ UNCHANGED <<rvars, idvars, runvars, chanvars, childvars>>

\* cmd.go:159-160 (part_000:148-149): the parent's write ends are closed
FClose(i) ==
    /\ ~Crashed
    /\ fpc[i] = "Close"
    /\ fds' = [fds EXCEPT ![i].outIn = "closed", ![i].errIn = "closed"]
    /\ fpc' = [fpc EXCEPT ![i] = "ReadOut"]
    /\ UNCHANGED <<fs, ferr, drained>>
    /\ UNCHANGED <<rvars, idvars, runvars, chanvars, childvars>>

\* cmd.go:161 and 164 (part_000:150, 154): while the child runs, the read
\* under way takes what is in its pipe, which makes room for the child
FDrain(i) ==
    /\ ~Crashed
    /\ child[i] = "running"
    /\ \E f \in {"out", "err"} :
        /\ fpc[i] = (IF f = "out" THEN "ReadOut" ELSE "ReadErr")
        /\ Buffered(i)[f] > 0
        /\ drained' = [drained EXCEPT ![i][f] = wrote[i][f]]
    /\ UNCHANGED <<fpc, fs, ferr>>
    /\ UNCHANGED <<rvars, idvars, runvars, chanvars, childvars, fds>>

\* cmd.go:161-163: r.Stdout gets what was read, also when the read fails
\* (part_000:150-153 keeps it in a local). The read ends at end of file,
\* which needs the child's write end closed.
FReadOut(i) ==
    /\ ~Crashed
    /\ fpc[i] = "ReadOut" /\ child[i] # "running"
    /\ \E ok \in BOOLEAN :
        IF ok
        THEN /\ ferr' = [ferr EXCEPT ![i] = Nil]
             /\ drained' = [drained EXCEPT ![i].out = wrote[i].out]
             /\ r' = [r EXCEPT ![i].Stdout =
                        IF entry[i] = "Run0" THEN r[i].Stdout ELSE cout[i]]
             /\ fpc' = [fpc EXCEPT ![i] = "ReadErr"]
             /\ failed' = failed
        ELSE /\ ferr' = [ferr EXCEPT ![i] = ErrRead]
             /\ r' = r /\ drained' = drained
             /\ fpc' = [fpc EXCEPT ![i] = "ret"]
             /\ failed' = [failed EXCEPT ![i] = Failure(failed[i], "read", ErrRead)]
    /\ UNCHANGED <<pc, entry, async, err, dclose, ret, fs>>
    /\ UNCHANGED <<rvars, idvars, chanvars, childvars, fds>>

\* cmd.go:164-166 (part_000:154-159, which assigns r.Stdout and r.Stderr
\* once both reads succeeded)
FReadErr(i) ==
    /\ ~Crashed
    /\ fpc[i] = "ReadErr" /\ child[i] # "running"
    /\ \E ok \in BOOLEAN :
        IF ok
        THEN /\ ferr' = [ferr EXCEPT ![i] = Nil]
             /\ drained' = [drained EXCEPT ![i].err = wrote[i].err]
             /\ r' = [r EXCEPT ![i].Stderr = cerr[i], ![i].Stdout =
                        IF entry[i] = "Run0" THEN cout[i] ELSE r[i].Stdout]
             /\ fpc' = [fpc EXCEPT ![i] = "Fill"]
             /\ failed' = failed
        ELSE /\ ferr' = [ferr EXCEPT ![i] = ErrRead]
             /\ r' = r /\ drained' = drained
             /\ fpc' = [fpc EXCEPT ![i] = "ret"]
             /\ failed' = [failed EXCEPT ![i] = Failure(failed[i], "read", ErrRead)]
    /\ UNCHANGED <<pc, entry, async, err, dclose, ret, fs>>
    /\ UNCHANGED <<rvars, idvars, chanvars, childvars, fds>>

\* a variant that reports a nonzero exit status as an error
FFill_exitIsError(i) ==
    /\ ~Crashed
    /\ fpc[i] = "Fill"
    /\ IF fs[i] = NilState
       THEN fpc' = [fpc EXCEPT ![i] = "panic"] /\ r' = r /\ ferr' = ferr
       ELSE /\ r' = [r EXCEPT ![i].PID = fs[i].pid, ![i].RC = fs[i].status,
                              ![i].UserTime = 1]
            /\ ferr' = [ferr EXCEPT ![i] =
                    IF fs[i].status # 0 THEN "exit status" ELSE ferr[i]]
            /\ fpc' = [fpc EXCEPT ![i] = IF async[i] THEN "Send" ELSE "ret"]
    /\ UNCHANGED <<pc, entry, async, err, dclose, ret, failed, fs, drained>>
    /\ UNCHANGED <<rvars, idvars, chanvars, childvars, fds>>

\* cmd.go:167-170 (part_000:160-163): s.Pid() on a nil state panics
FFill(i) ==
    /\ ~Crashed
    /\ fpc[i] = "Fill"
    /\ IF fs[i] = NilState
       THEN fpc' = [fpc EXCEPT ![i] = "panic"] /\ r' = r
       ELSE /\ r' = [r EXCEPT ![i].PID = fs[i].pid, ![i].RC = fs[i].status,
                              ![i].UserTime = 1]
            /\ fpc' = [fpc EXCEPT ![i] = IF async[i] THEN "Send" ELSE "ret"]
    /\ UNCHANGED <<pc, entry, async, err, dclose, ret, failed, fs, ferr, drained>>
    /\ UNCHANGED <<rvars, idvars, chanvars, childvars, fds>>

\* cmd.go:171-173: rt <- r, which waits for room in the channel
FSend(i) ==
    /\ ~Crashed
    /\ fpc[i] = "Send" /\ Len(rt[i]) < RtCap
    /\ rt' = [rt EXCEPT ![i] = Append(rt[i], r[i])]
    /\ sent' = [sent EXCEPT ![i] = Append(sent[i], r[i])]
    /\ fpc' = [fpc EXCEPT ![i] = "ret"]
    /\ UNCHANGED <<fs, ferr, drained>>
    /\ UNCHANGED <<rvars, idvars, runvars, childvars, fds>>

\* finisher returns: the Closes it deferred (cmd.go:155-158, Async only)
\* run; called in line, its result becomes err (cmd.go:180, part_000:165)
FReturn(i) ==
    /\ ~Crashed
    /\ fpc[i] = "ret"
    /\ fpc' = [fpc EXCEPT ![i] = "done"]
    /\ fds' = IF async[i]
              THEN [fds EXCEPT ![i].errOut = "closed", ![i].outOut = "closed"]
              ELSE fds
    /\ IF pc[i] = "finisher"
       THEN /\ err' = [err EXCEPT ![i] = ferr[i]]
            /\ pc' = [pc EXCEPT ![i] = "defer"]
       ELSE UNCHANGED <<err, pc>>
    /\ UNCHANGED <<entry, async, r, dclose, ret, failed, fs, ferr, drained>>
    /\ UNCHANGED <<rvars, idvars, chanvars, childvars>>

\* the function returns: the deferred Closes run (cmd.go:120-123,
\* part_000:107,113); the older Run hands r and err to its caller
RunnerDefers(i) ==
    /\ ~Crashed
    /\ pc[i] = "defer"
    /\ fds' = [fds EXCEPT ![i] = [f \in DOMAIN fds[i] |->
                    IF f \in dclose[i] THEN "closed" ELSE fds[i][f]]]
    /\ IF entry[i] = "Run0"
       THEN /\ ret' = [ret EXCEPT ![i] = [returned |-> TRUE, rt |-> r[i], err |-> err[i]]]
            /\ pc' = [pc EXCEPT ![i] = "done"]
       ELSE /\ ret' = ret
            /\ pc' = [pc EXCEPT ![i] = "send"]
    /\ UNCHANGED <<entry, async, r, err, dclose, failed>>
    /\ UNCHANGED <<rvars, idvars, chanvars, finvars, childvars>>

\* cmd.go:95-97, the deferred rt <- r: r as it is when Runner returns.
\* RunAsync's caller then has Runner's err (cmd.go:193).
RunnerSend(i) ==
    /\ ~Crashed
    /\ pc[i] = "send" /\ Len(rt[i]) < RtCap
    /\ rt' = [rt EXCEPT ![i] = Append(rt[i], r[i])]
    /\ sent' = [sent EXCEPT ![i] = Append(sent[i], r[i])]
    /\ IF entry[i] = "Run"
       THEN pc' = [pc EXCEPT ![i] = "recv"] /\ ret' = ret
       ELSE /\ pc' = [pc EXCEPT ![i] = "done"]
            /\ ret' = [ret EXCEPT ![i] = [returned |-> TRUE, err |-> err[i]]]
    /\ UNCHANGED <<entry, async, r, err, dclose, failed>>
    /\ UNCHANGED <<rvars, idvars, finvars, childvars, fds>>

\* cmd.go:188, return <-rt, err
RunRecv(i) ==
    /\ ~Crashed
    /\ pc[i] = "recv" /\ rt[i] # <<>>
    /\ ret' = [ret EXCEPT ![i] = [returned |-> TRUE, rt |-> Head(rt[i]), err |-> err[i]]]
    /\ rt' = [rt EXCEPT ![i] = Tail(rt[i])]
    /\ pc' = [pc EXCEPT ![i] = "done"]
    /\ UNCHANGED <<entry, async, r, err, dclose, failed, sent>>
    /\ UNCHANGED <<rvars, idvars, finvars, childvars, fds>>

\* the caller of RunAsync receives from its channel
Consume(i) ==
    /\ ~Crashed
    /\ entry[i] = "RunAsync" /\ rt[i] # <<>>
    /\ rt' = [rt EXCEPT ![i] = Tail(rt[i])]
    /\ UNCHANGED sent
    /\ UNCHANGED <<rvars, idvars, runvars, finvars, childvars, fds>>

----------------------------------------------------------------------------
(* The calls of Render that are explored: a template is a concatenation   *)
(* of pieces, a parameter list a sequence of name/value pairs.             *)

MaxPieces == 3
MaxParams == 2

RECURSIVE SeqsUpTo(_, _)
SeqsUpTo(S, n) ==
    IF n = 0 THEN {<<>>}
    ELSE LET shorter == SeqsUpTo(S, n - 1)
         IN  shorter \cup {Append(q, x) : q \in shorter, x \in S}

RECURSIVE Concat(_)
Concat(ps) == IF ps = <<>> THEN <<>> ELSE Head(ps) \o Concat(Tail(ps))

\* placeholders, optional fragments, plain text and a stray closing bracket
BracketPieces == {PhA, PhB, FragA, FragB, PlainText, <<"]">>}

\* glob tokens, a separator and an environment reference
GlobPieces == {<<"*">>, <<"a", "*">>, <<" ">>, <<"$", "L">>}

\* templates that hold a placeholder or a bracket next to an environment
\* reference or a glob token
MixedSeqs ==
    { <<PhA, (<<"$", "L">>)>>, <<(<<"$", "L">>), PhB>>, <<PhA, (<<"*">>)>>,
      <<(<<"*">>), FragA>>, <<(<<"$", "L">>), FragB, PhA>>,
      <<(<<"$", "L">>), (<<"]">>), FragA>>, <<(<<"*">>), (<<"]">>), FragB>> }

PieceSeqs ==
    SeqsUpTo(BracketPieces, MaxPieces) \cup SeqsUpTo(GlobPieces, MaxPieces)
        \cup MixedSeqs

\* values: plain, a bracket, a placeholder
Params ==
    { <<(<<"A">>), (<<"v">>)>>, <<(<<"A">>), (<<"]">>)>>, <<(<<"A">>), PhB>>,
      <<(<<"B">>), (<<"v">>)>>,
      <<(<<>>), (<<"v">>)>> }
\* a list names each placeholder at most once; bare values may repeat
ParamLists ==
    { ps \in SeqsUpTo(Params, MaxParams) :
        \A i, j \in 1..Len(ps) :
            i < j => ps[i][1] # ps[j][1] \/ ps[i][1] = <<>> }

InitRender ==
    /\ pieces \in PieceSeqs
    /\ tmpl = Concat(pieces)
    /\ args \in ParamLists
    /\ text = tmpl
    /\ rargs = args
    /\ gl = <<>>
    /\ rpc = "subst"
    /\ rerr = Nil
    /\ envReads = 0
    /\ globCalls = 0
    /\ InitID
    /\ InitRunner

\* cmd.go:31-38, one pass of the range loop
RenderSubst ==
    /\ rpc = "subst" /\ rargs # <<>>
    /\ text' = SubstParam(text, Head(rargs))
    /\ rargs' = Tail(rargs)
    /\ UNCHANGED <<pieces, tmpl, args, gl, rpc, rerr, envReads, globCalls>>
    /\ UNCHANGED <<idvars, runvars, chanvars, finvars, childvars, fds>>

\* cmd.go:39, the call of optional
RenderCallOptional ==
    /\ rpc = "subst" /\ rargs = <<>>
    /\ rpc' = "brackets"
    /\ UNCHANGED <<pieces, tmpl, args, text, rargs, gl, rerr, envReads, globCalls>>
    /\ UNCHANGED <<idvars, runvars, chanvars, finvars, childvars, fds>>

\* cmd.go:208-224, one pass of the bracket loop
OptionalBracket ==
    /\ rpc = "brackets" /\ Index(text, <<"[">>) >= 0
    /\ IF BracketSyntaxError(text)
       THEN rerr' = ErrSyntaxError /\ rpc' = "done" /\ text' = text
       ELSE text' = BracketStep(text) /\ UNCHANGED <<rpc, rerr>>
    /\ UNCHANGED <<pieces, tmpl, args, rargs, gl, envReads, globCalls>>
    /\ UNCHANGED <<idvars, runvars, chanvars, finvars, childvars, fds>>

\* a variant that expands the environment before the completeness check
OptionalCheck_expandFirst ==
    /\ rpc = "brackets" /\ Index(text, <<"[">>) < 0
    /\ text' = ExpandEnv(text)
    /\ envReads' = envReads + 1
    /\ IF PMatch(text')
       THEN rerr' = ErrIncomplete /\ rpc' = "done"
       ELSE rpc' = "expand" /\ rerr' = rerr
    /\ UNCHANGED <<pieces, tmpl, args, rargs, gl, globCalls>>
    /\ UNCHANGED <<idvars, runvars, chanvars, finvars, childvars, fds>>

\* cmd.go:210-211 and 225-227, leaving the loop and the completeness check
OptionalCheck ==
    /\ rpc = "brackets" /\ Index(text, <<"[">>) < 0
    /\ IF PMatch(text)
       THEN rerr' = ErrIncomplete /\ rpc' = "done"
       ELSE rpc' = "expand" /\ rerr' = rerr
    /\ UNCHANGED <<pieces, tmpl, args, text, rargs, gl, envReads, globCalls>>
    /\ UNCHANGED <<idvars, runvars, chanvars, finvars, childvars, fds>>

\* cmd.go:228-229, os.ExpandEnv and globs.FindAllString
OptionalExpandEnv ==
    /\ rpc = "expand"
    /\ text' = ExpandEnv(text)
    /\ envReads' = envReads + 1
    /\ gl' = FindAllString(text')
    /\ rpc' = "globs"
    /\ UNCHANGED <<pieces, tmpl, args, rargs, rerr, globCalls>>
    /\ UNCHANGED <<idvars, runvars, chanvars, finvars, childvars, fds>>

\* cmd.go:229-238, one pass of the glob loop
OptionalGlob ==
    /\ rpc = "globs" /\ gl # <<>>
    /\ globCalls' = globCalls + 1
    /\ LET res == GlobStep(text, Head(gl))
       IN  /\ text' = res.text
           /\ rerr' = res.err
           /\ IF res.err # Nil
              THEN rpc' = "done" /\ gl' = gl
              ELSE rpc' = rpc /\ gl' = Tail(gl)
    /\ UNCHANGED <<pieces, tmpl, args, rargs, envReads>>
    /\ UNCHANGED <<idvars, runvars, chanvars, finvars, childvars, fds>>

\* cmd.go:239
OptionalReturn ==
    /\ rpc = "globs" /\ gl = <<>>
    /\ rpc' = "done"
    /\ UNCHANGED <<pieces, tmpl, args, text, rargs, gl, rerr, envReads, globCalls>>
    /\ UNCHANGED <<idvars, runvars, chanvars, finvars, childvars, fds>>

NextRender ==
    \/ RenderSubst
    \/ RenderCallOptional
    \/ OptionalBracket
    \/ OptionalCheck
    \/ OptionalExpandEnv
    \/ OptionalGlob
    \/ OptionalReturn

SpecRender == InitRender /\ [][NextRender]_vars

\* no call of Render is under way
IdleRender ==
    /\ pieces = <<>> /\ tmpl = <<>> /\ args = <<>> /\ text = <<>>
    /\ rargs = <<>> /\ gl = <<>> /\ rpc = "idle" /\ rerr = Nil
    /\ envReads = 0 /\ globCalls = 0

----------------------------------------------------------------------------
(* Goroutines that call nextID, MaxCalls times between them.               *)

InitCallers == IdleRender /\ InitID /\ InitRunner

NextCallers ==
    \E t \in Threads :
        \/ CallerCall(t)
        \/ NextIDLock(t)
        \/ NextIDInc(t)
        \/ NextIDUnlock(t)
        \/ NextIDReturn(t)
        \/ CallerReturn(t)

SpecID == InitCallers /\ [][NextCallers]_vars

----------------------------------------------------------------------------
(* Invocations of Run, RunAsync and the older Run.                         *)

Init == IdleRender /\ InitID /\ InitRunner

Next ==
    \E i \in Invs :
        \/ Call(i)
        \/ LookPath(i)
        \/ RenderArgs(i)
        \/ PipeErr(i)
        \/ PipeOut(i)
        \/ UserStep(i)
        \/ RunnerNextID(i)
        \/ NextIDLock(i)
        \/ NextIDInc(i)
        \/ NextIDUnlock(i)
        \/ NextIDReturn(i)
        \/ RunnerGotID(i)
        \/ StartProcess(i)
        \/ ChildWrite(i)
        \/ ChildExit(i)
        \/ FWait(i)
        \/ FClose(i)
        \/ FDrain(i)
        \/ FReadOut(i)
        \/ FReadErr(i)
        \/ FFill(i)
        \/ FSend(i)
        \/ FReturn(i)
        \/ RunnerDefers(i)
        \/ RunnerSend(i)
        \/ RunRecv(i)
        \/ Consume(i)

Spec == Init /\ [][Next]_vars

\* the invocation is over: the call returned and no finisher is running
Over(i) == pc[i] = "done" /\ fpc[i] \in {"none", "done"}


\* the stepwise run ends with what the functions compute
RenderAgrees ==
    rpc = "done" =>
        /\ rerr = Render(tmpl, args).err
        /\ text = Render(tmpl, args).text

----------------------------------------------------------------------------
(* The session counter's and the runner's claims.                          *)

\* C1 as stated: the values nextID returns, to any number of goroutines,
\* are pairwise distinct, and none is ever returned again.
C1_DistinctIDs ==
    \A a, b \in 1..Len(issued) : a # b => issued[a] # issued[b]

\* C2 as stated: an asynchronous invocation sends exactly one Runtime on
\* the channel over its lifetime: never two, and one once it is over.
C2_ExactlyOneSend ==
    \A i \in Invs :
        async[i] => /\ Len(sent[i]) <= 1
                    /\ Over(i) => Len(sent[i]) = 1

C4_OnlyCompleteRecords ==
    \A i \in Invs :
        (async[i] /\ child[i] # "none") =>
            \A k \in 1..Len(sent[i]) :
                /\ child[i] = "exited"
                /\ sent[i][k].RC = cstat[i]
                /\ sent[i][k].PID = Pid(i)
                /\ sent[i][k].Finished = 1
                /\ sent[i][k].Stdout = cout[i]
                /\ sent[i][k].Stderr = cerr[i]

\* C5 as stated: in asynchronous mode, whatever step fails, a Runtime is
\* delivered and the launching call returns that failure.
C5_FailureReturned ==
    \A i \in Invs :
        (async[i] /\ Over(i) /\ failed[i] # NoFailure)
            => Len(sent[i]) >= 1 /\ ret[i].err = failed[i].err

PreSpawnKinds == {"lookpath", "render", "pipe", "root", "lookup"}

\* C6: when a step before the spawn fails, no child is ever started, and
\* Run returns a non-nil error with a Runtime whose RC and PID are 0.
C6_PreSpawnFailure ==
    \A i \in Invs :
        failed[i].kind \in PreSpawnKinds =>
            /\ child[i] = "none"
            /\ (pc[i] = "done" /\ entry[i] \in {"Run", "Run0"}) =>
                    /\ ret[i].err # Nil
                    /\ ret[i].rt.RC = 0
                    /\ ret[i].rt.PID = 0

\* Run returned ErrMustBeRoot and a Runtime without pid or exit code
C6_Witness ==
    \E i \in Invs :
        /\ entry[i] = "Run" /\ pc[i] = "done" /\ failed[i].kind = "root"
        /\ ret[i].err = ErrMustBeRoot /\ ret[i].rt.RC = 0 /\ ret[i].rt.PID = 0
        /\ child[i] = "none"

----------------------------------------------------------------------------
(* What the renderer's claims speak of: the placeholders and fragments of  *)
(* the template, and the parameters supplied for them.                     *)

IsPh(p) == p \in {PhA, PhB}
IsFrag(p) == p \in {FragA, FragB}
IsText(p) == p = PlainText
NameOf(p) == IF p \in {PhA, FragA} THEN <<"A">> ELSE <<"B">>

\* the template is made of plain text, placeholders and non-nested
\* fragments only
WellFormedPieces ==
    /\ pieces # <<>>
    /\ \A k \in 1..Len(pieces) :
        IsPh(pieces[k]) \/ IsFrag(pieces[k]) \/ IsText(pieces[k])

Supplied(name) == \E k \in 1..Len(args) : args[k][1] = name
ValueOf(name) == args[CHOOSE k \in 1..Len(args) : args[k][1] = name][2]

\* no parameter value holds a bracket or a brace
BenignArgs ==
    \A k \in 1..Len(args) : \A c \in 1..Len(args[k][2]) :
        args[k][2][c] \notin {"[", "]", "{", "}"}

\* a placeholder outside every fragment has no parameter of its name
UnsuppliedOutside ==
    \E k \in 1..Len(pieces) : IsPh(pieces[k]) /\ ~Supplied(NameOf(pieces[k]))

\* a fragment at position i or to its right holds an unsupplied placeholder
UnsuppliedFragFrom(i) ==
    \E k \in i..Len(pieces) : IsFrag(pieces[k]) /\ ~Supplied(NameOf(pieces[k]))

\* the bare values, each after a space, in the order supplied
RECURSIVE BareAppends(_)
BareAppends(ps) ==
    IF ps = <<>> THEN <<>>
    ELSE (IF Head(ps)[1] = <<>> THEN <<" ">> \o Head(ps)[2] ELSE <<>>)
         \o BareAppends(Tail(ps))

\* a fragment without its brackets, its placeholder replaced by the value
Unwrapped(p) ==
    (IF p = FragA THEN PlainText ELSE <<>>) \o ValueOf(NameOf(p))

\* the text when every fragment is resolved on its own placeholder
ExpectedOwn ==
    Concat([k \in 1..Len(pieces) |->
        IF IsText(pieces[k]) THEN pieces[k]
        ELSE IF IsPh(pieces[k])
        THEN (IF Supplied(NameOf(pieces[k])) THEN ValueOf(NameOf(pieces[k]))
              ELSE pieces[k])
        ELSE (IF Supplied(NameOf(pieces[k])) THEN Unwrapped(pieces[k])
              ELSE <<>>)])
    \o BareAppends(args)

\* the text when a fragment is kept only if no placeholder is left unsupplied
\* in it, to its right, or outside the fragments
ExpectedWhole ==
    Concat([k \in 1..Len(pieces) |->
        IF IsText(pieces[k]) THEN pieces[k]
        ELSE IF IsPh(pieces[k])
        THEN (IF Supplied(NameOf(pieces[k])) THEN ValueOf(NameOf(pieces[k]))
              ELSE pieces[k])
        ELSE (IF ~UnsuppliedOutside /\ ~UnsuppliedFragFrom(k)
              THEN Unwrapped(pieces[k]) ELSE <<>>)])
    \o BareAppends(args)

\* the placeholders of unsupplied names are gone from the returned text
UnsuppliedGone ==
    \A k \in 1..Len(pieces) :
        (~IsText(pieces[k]) /\ ~Supplied(NameOf(pieces[k]))) => Index(text, <<"{", "{">> \o NameOf(pieces[k]) \o <<"}", "}">>) < 0

\* C7 as stated: for a template of text, placeholders and non-nested fragments
\* and any parameter list, an unsupplied placeholder outside the fragments
\* gives ErrIncomplete; when every unsupplied placeholder is inside a
\* fragment there is no ErrIncomplete and those fragments are gone.
C7_AnyParams ==
    (rpc = "done" /\ WellFormedPieces) =>
        /\ UnsuppliedOutside => rerr = ErrIncomplete
        /\ ~UnsuppliedOutside => rerr # ErrIncomplete /\ UnsuppliedGone

\* C7, amended: the same, for parameter lists whose values hold no bracket
\* and no brace.
C7_PlainParams ==
    (rpc = "done" /\ WellFormedPieces /\ BenignArgs) =>
        /\ UnsuppliedOutside => rerr = ErrIncomplete
        /\ ~UnsuppliedOutside => rerr # ErrIncomplete /\ UnsuppliedGone

\* a fragment with an unsupplied placeholder was dropped and the rest rendered
C7_Witness ==
    /\ rpc = "done" /\ WellFormedPieces /\ BenignArgs
    /\ ~UnsuppliedOutside /\ UnsuppliedFragFrom(1)
    /\ \E k \in 1..Len(pieces) : IsPh(pieces[k])
    /\ rerr = Nil /\ text # <<>>

\* a ']' before its '[', or more ']' than '[': some prefix of the text
\* closes more brackets than it opens
Unmatched(t) ==
    \E k \in 1..Len(t) :
        Cardinality({i \in 1..k : t[i] = "]"}) > Cardinality({i \in 1..k : t[i] = "["})

\* C8 as stated: a template with an unmatched ']' is rejected with
\* ErrSyntaxError.
C8_UnmatchedIsSyntaxError ==
    (rpc = "done" /\ Unmatched(tmpl) /\ BenignArgs) => rerr = ErrSyntaxError

\* C9 as stated: each fragment is resolved on its own placeholder only, so
\* a fragment whose placeholder was supplied is unwrapped whatever the
\* other fragments hold.
C9_OwnPlaceholderOnly ==
    (rpc = "done" /\ WellFormedPieces /\ BenignArgs /\ rerr = Nil) =>
        text = ExpectedOwn

\* C9, amended: fragments are resolved leftmost first against the whole
\* text; a fragment is unwrapped only if no placeholder is left unsupplied
\* in it, in a fragment to its right or outside the fragments, and is
\* removed otherwise, also when its own placeholder was supplied.
C9_WholeTextRule ==
    (rpc = "done" /\ WellFormedPieces /\ BenignArgs) => text = ExpectedWhole

\* a fragment whose placeholder was supplied was removed with its neighbour
C9_Witness ==
    /\ rpc = "done" /\ WellFormedPieces /\ BenignArgs /\ rerr = Nil
    /\ text # ExpectedOwn
    /\ \E k \in 1..Len(pieces) : IsFrag(pieces[k]) /\ Supplied(NameOf(pieces[k]))

\* the text handed to the glob loop
PreGlob == ExpandEnv(BracketLoop(SubstAll(tmpl, args)).text)

IsTokenChar(c) == c \in GlobChar \/ c = "*"

\* the end (exclusive) of the run of word characters, dots, hyphens and
\* stars that starts at i
TokenEnd(s, i) ==
    SetMin({k \in i..(Len(s) + 1) : k = Len(s) + 1 \/ ~IsTokenChar(s[k])})

\* the glob tokens of s from position i on
RECURSIVE TokensFrom(_, _)
TokensFrom(s, i) ==
    IF i > Len(s) THEN {}
    ELSE IF ~IsTokenChar(s[i]) THEN TokensFrom(s, i + 1)
    ELSE LET tok == SubSeq(s, i, TokenEnd(s, i) - 1)
         IN  (IF \E k \in 1..Len(tok) : tok[k] = "*" THEN {tok} ELSE {})
             \cup TokensFrom(s, TokenEnd(s, i))

\* s with each glob token, and nothing else, replaced by its match list
RECURSIVE ExpandTokens(_, _)
ExpandTokens(s, i) ==
    IF i > Len(s) THEN <<>>
    ELSE IF ~IsTokenChar(s[i]) THEN <<s[i]>> \o ExpandTokens(s, i + 1)
    ELSE LET tok == SubSeq(s, i, TokenEnd(s, i) - 1)
         IN  (IF \E k \in 1..Len(tok) : tok[k] = "*" THEN Join(Glob(tok)) ELSE tok)
             \o ExpandTokens(s, TokenEnd(s, i))

\* C10 as stated: a glob token without a match gives ErrNoSuchFile;
\* otherwise each token, and nothing but it, is replaced by its match list
\* and rendering the result again changes nothing.
C10_TokenwiseExpansion ==
    (rpc = "done" /\ rerr \notin {ErrSyntaxError, ErrIncomplete}) =>
        IF \E tok \in TokensFrom(PreGlob, 1) : Glob(tok) = <<>>
        THEN rerr = ErrNoSuchFile
        ELSE /\ rerr = Nil
             /\ text = ExpandTokens(PreGlob, 1)
             /\ Render(text, <<>>).text = text

----------------------------------------------------------------------------
(* The channel, the order of the steps and the resources.                  *)

\* a send on rt is waiting for room in the channel
BlockedSend(i) ==
    (pc[i] = "send" \/ fpc[i] = "Send") /\ Len(rt[i]) >= RtCap

\* C11 as stated: with one free slot in the channel passed to RunAsync,
\* neither the launching call nor the goroutine is ever held at a send,
\* whenever the consumer receives.
C11_NeverBlockedOnSend ==
    \A i \in Invs : entry[i] = "RunAsync" => ~BlockedSend(i)

\* C12: a nextID call that begins after another has returned returns a
\* strictly greater value, and every value returned is at least 1 and at
\* most the counter's current value.
C12_IncreasingInCallOrder ==
    /\ \A k \in 1..Len(issued) : issued[k] >= 1 /\ issued[k] <= sessionID
    /\ \A t \in Threads : idpc[t] = "returned" => idret[t] > floor[t]

\* a call that began after values had been returned to another goroutine
\* and to its own has returned
C12_Witness ==
    \E t \in Threads :
        /\ idpc[t] = "returned" /\ floor[t] >= 2 /\ calls[t] = 2
        /\ \E u \in Threads \ {t} : calls[u] >= 1 /\ idpc[u] = "idle"

\* the parent's write ends of both pipes are closed
WriteEndsClosed(i) == fds[i].outIn = "closed" /\ fds[i].errIn = "closed"

\* C13 as stated: the parent's write ends are closed after the spawn and
\* before the wait for the child: when the wait is made they are closed.
C13_ClosedBeforeWait ==
    [][\A i \in Invs :
        (fpc[i] = "Wait" /\ fpc'[i] # "Wait") => WriteEndsClosed(i)]_vars

\* C13, amended: the parent's write ends stay open until the wait for the
\* child has returned, and are closed before either pipe is read.
C13_ClosedAfterWaitBeforeRead ==
    \A i \in Invs :
        /\ fpc[i] \in {"none", "Wait", "Close"} =>
                fds[i].outIn # "closed" /\ fds[i].errIn # "closed"
        /\ fpc[i] \in {"ReadOut", "ReadErr", "Fill", "Send", "ret", "done", "panic"} =>
                WriteEndsClosed(i)

\* the child has exited, the wait is over and the reads are about to start
\* with the write ends closed
C13_Witness ==
    \E i \in Invs :
        fpc[i] = "ReadOut" /\ child[i] = "exited" /\ WriteEndsClosed(i)

\* C14 as stated: when the wait for the child fails the invocation stops
\* there: no pipe is read, nothing is taken from the absent process state
\* (no panic), and Run returns the wait's error.
C14_WaitFailureStopsInvocation ==
    \A i \in Invs :
        failed[i].kind = "wait" =>
            /\ fpc[i] \notin {"ReadErr", "Fill", "Send", "panic"}
            /\ (pc[i] = "done" /\ entry[i] \in {"Run", "Run0"} /\ ~async[i]) =>
                    ret[i].err = ErrWait

\* C15: environment expansion and glob lookups come only after the
\* brackets are resolved and the text is found complete: none was made
\* while Render is at an earlier step, nor when it returns ErrSyntaxError
\* or ErrIncomplete.
C15_LookupsAfterCompleteness ==
    (rpc \in {"subst", "brackets"} \/ rerr \in {ErrSyntaxError, ErrIncomplete})
        => envReads = 0 /\ globCalls = 0

\* Render returned ErrIncomplete for a text that holds an environment
\* reference
C15_Witness ==
    /\ rpc = "done" /\ rerr = ErrIncomplete
    /\ Index(text, <<"$", "L">>) >= 0
    /\ envReads = 0 /\ globCalls = 0

\* a bare-append parameter: its name is empty
IsBare(p) == p[1] = <<>>

\* the parameter lists that are ps in another order, with the bare-append
\* parameters in the same relative order
Reorderings(ps) ==
    LET n == Len(ps)
        Perms == {f \in [1..n -> 1..n] : \A a, b \in 1..n : a # b => f[a] # f[b]}
    IN  {q \in {[k \in 1..n |-> ps[f[k]]] : f \in Perms} :
            SelectSeq(q, IsBare) = SelectSeq(ps, IsBare)}

\* C16 as stated: Render returns the same text and the same error for
\* every reordering of the named parameters, whatever the values hold.
C16_NamedOrderIrrelevant ==
    rpc = "done" =>
        \A q \in Reorderings(args) :
            Render(tmpl, q).text = text /\ Render(tmpl, q).err = rerr

\* the child has output left to write and no room in a pipe to write it
ChildBlocked(i) ==
    /\ child[i] = "running"
    /\ LeftToWrite(i) # NoneMoved
    /\ \A f \in {"out", "err"} :
            LeftToWrite(i)[f] > 0 => Buffered(i)[f] >= PipeCap

\* C17 as stated: in a synchronous Run the parent never waits for the
\* exit of a child that is blocked writing to a full pipe the parent has
\* not started to read, so that the Run of a child with a finite output
\* returns.
C17_NeverWaitsOnBlockedChild ==
    \A i \in Invs :
        (entry[i] \in {"Run", "Run0"} /\ ~async[i]) =>
            ~(fpc[i] = "Wait" /\ ChildBlocked(i))

\* C18 as stated: once the invocation is over, no pipe end it opened is
\* still open in the parent, on the success path and on every failure path.
C18_AllEndsClosedWhenOver ==
    \A i \in Invs :
        Over(i) => \A f \in DOMAIN fds[i] : fds[i][f] # "open"

\* C19: an invocation that fails at a step before the spawn has made no
\* nextID call, the counter is as it was and the Runtime returned has SID
\* 0; and the counter changes only by the +1 of a nextID call.
C19_CounterFrame ==
    /\ [](\A i \in Invs :
            failed[i].kind \in PreSpawnKinds =>
                /\ calls[i] = 0 /\ idpc[i] = "idle" /\ sessionID = 0
                /\ (pc[i] = "done" /\ entry[i] \in {"Run", "Run0"}) =>
                        ret[i].rt.SID = 0)
    /\ [][\/ sessionID' = sessionID
          \/ /\ sessionID' = sessionID + 1
             /\ \E t \in Threads : idpc[t] = "inc" /\ idpc'[t] = "unlock"]_vars

\* Run returned the user lookup's error and a Runtime with SID 0, the
\* counter untouched
C19_Witness ==
    \E i \in Invs :
        /\ entry[i] = "Run" /\ pc[i] = "done" /\ failed[i].kind = "lookup"
        /\ ret[i].rt.SID = 0 /\ sessionID = 0

\* C20 as stated: whatever c.Async holds, when Run returns a nil error the
\* child has exited, the Runtime returned carries its exit status and its
\* output, and nothing is sent on Run's channel afterwards.
C20_RunIsSynchronous ==
    \A i \in Invs :
        (entry[i] = "Run" /\ pc[i] = "done" /\ ret[i].err = Nil) =>
            /\ child[i] = "exited"
            /\ ret[i].rt.RC = cstat[i]
            /\ ret[i].rt.Stdout = cout[i]
            /\ ret[i].rt.Stderr = cerr[i]
            /\ Len(sent[i]) = 1

====
